---- MODULE Spec2Model ----
(***************************************************************************)
(* Model of the retrieval core of the Ayurvedic assistant:                 *)
(*   src/src/rag/vector_store.py   VectorStore                             *)
(*   src/src/rag/retriever.py      AyurvedicRetriever                      *)
(* A Python value that may be None is a sequence of length at most one:    *)
(* None is << >> and a present value v is << v >>.                         *)
(***************************************************************************)
EXTENDS Integers, Sequences, FiniteSets, TLC

VARIABLES
    faiss_index,   \* VectorStore.faiss_index: None, or the index object
    documents,     \* VectorStore.documents: tracking list of Document objects
    metadata,      \* VectorStore.metadata: tracking list of metadata dicts
    disk,          \* the file system: path -> persisted state
    retriever,     \* AyurvedicRetriever.retriever: None, or the handle
    pc,            \* per caller: position inside add_documents, or "idle"
    frame,         \* per caller: local variables of a running add_documents
    res            \* per caller: the last call, its arguments and its result

vars == <<faiss_index, documents, metadata, disk, retriever, pc, frame, res>>

store == <<faiss_index, documents, metadata>>

-----------------------------------------------------------------------------
(* Bounds of the model *)

\* largest number of entries the tracking lists / the index are grown to
MaxDocs == 2

\* longest chunk list handed to one add_documents call
MaxBatch == 2

\* longest text handed to the chunker, in characters
MaxTextLen == 4

\* longest list of texts handed to batch_generate_embeddings
MaxTexts == 3

\* longest list of candidates handed to find_most_similar
MaxCandidates == 3

\* most entries in the directory handed to the loader
MaxFiles == 2

\* longest chunk list handed to merge_small_chunks or filter_chunks_by_length
MaxChunks == 3

(* Program constants *)

\* settings.top_k_retrieval, default of TOP_K_RETRIEVAL
TopKRetrieval == 5

\* settings.max_file_size_mb, default of MAX_FILE_SIZE_MB
MaxFileSizeMb == 50

-----------------------------------------------------------------------------
(* Python values *)

None == << >>

Some(v) == << v >>

\* Python truthiness of an optional int: None and 0 are falsy
Truthy(opt) == opt # None /\ opt[1] # 0

\* `a or b` for an optional first operand
PyOr(opt, default) == IF Truthy(opt) THEN opt[1] ELSE default

Min(a, b) == IF a <= b THEN a ELSE b

SeqsUpTo(S, n) == UNION { [1..m -> S] : m \in 0..n }

IsPrefix(s, t) == Len(s) <= Len(t) /\ SubSeq(t, 1, Len(s)) = s

-----------------------------------------------------------------------------
(* Inputs *)

\* the callers: Main is the only caller of the sequential system
Main == "t1"

Threads == {"t1", "t2"}

\* the store's configured path, and a path no save ever writes
StorePath == "vector_store"

MissingPath == "missing"

Paths == {StorePath, MissingPath}

\* the path argument of save and of load
SavePathArgs == {None, Some(StorePath)}

LoadPathArgs == {None, Some(StorePath), Some(MissingPath)}

Queries == {"a", "ab"}

TopKArgs == {None, Some(0), Some(1)}

\* well-formed chunks: one with a source_file in its metadata, one without
ChunkA == [content |-> "a", metadata |-> [source_file |-> "f1.txt"]]

ChunkB == [content |-> "b", metadata |-> [title |-> "t"]]

\* a chunk without the "metadata" key
Malformed == [content |-> "a"]

Chunks == {ChunkA, ChunkB, Malformed}

WellFormed(chunk) == {"content", "metadata"} \subseteq DOMAIN chunk

-----------------------------------------------------------------------------
(* The embedding model and the index library, as the store uses them *)

\* the sentence-embedding model: a fixed vector per text
Embed(text) ==
    CASE text = "a"  -> <<1, 0>>
      [] text = "b"  -> <<0, 1>>
      [] text = "ab" -> <<1, 1>>
      [] OTHER       -> <<0, 0>>

\* Document(page_content=text, metadata=metadata)
Document(chunk) == [page_content |-> chunk.content, metadata |-> chunk.metadata]

\* one entry of the index: the vector and its document
Entry(doc) == [embedding |-> Embed(doc.page_content),
               page_content |-> doc.page_content,
               metadata |-> doc.metadata]

EntriesOf(docs) == [i \in 1..Len(docs) |-> Entry(docs[i])]

\* FAISS.from_documents(documents, embeddings): a new index object
FromDocuments(docs) == EntriesOf(docs)

\* faiss_index.add_documents(documents): append to the index object
IndexAdd(index, docs) == index \o EntriesOf(docs)

\* squared L2 distance, the score similarity_search_with_score reports
Distance(u, v) == (u[1] - v[1]) * (u[1] - v[1]) + (u[2] - v[2]) * (u[2] - v[2])

\* position of entry i in the nearest-first order (ties by position)
Rank(index, qv, i) ==
    Cardinality({ j \in 1..Len(index) :
        \/ Distance(qv, index[j].embedding) < Distance(qv, index[i].embedding)
        \/ /\ Distance(qv, index[j].embedding) = Distance(qv, index[i].embedding)
           /\ j < i })

\* faiss_index.similarity_search_with_score(query, k): the k nearest (doc, score)
SimilaritySearchWithScore(index, query, k) ==
    LET qv == Embed(query)
        at(r) == CHOOSE i \in 1..Len(index) : Rank(index, qv, i) = r - 1
    IN  [r \in 1..Min(k, Len(index)) |->
            [doc   |-> index[at(r)],
             score |-> Distance(qv, index[at(r)].embedding)]]

-----------------------------------------------------------------------------
(* Results of a call: a returned value, or an exception reaching the caller *)

Return(v) == [raised |-> FALSE, value |-> v]

Raise == [raised |-> TRUE, value |-> << >>]

\* try: body / except Exception: return fallback
Catch(out, fallback) == IF out.raised THEN Return(fallback) ELSE out

-----------------------------------------------------------------------------
(* VectorStore.search *)

\* lines 118-125: one result dict per (doc, score)
FormatResults(results) ==
    [i \in 1..Len(results) |->
        [content          |-> results[i].doc.page_content,
         metadata         |-> results[i].doc.metadata,
         similarity_score |-> results[i].score]]

\* the body of the try block; `fails`: the library call of line 115 raises
SearchBody(index, query, top_k, fails) ==
    IF index = None
    THEN Return(<< >>)
    ELSE LET k == PyOr(top_k, TopKRetrieval)
         IN  IF fails \/ k < 1
             THEN Raise
             ELSE Return(FormatResults(SimilaritySearchWithScore(index[1], query, k)))

Search_NoCatch(index, query, top_k, fails) == SearchBody(index, query, top_k, fails)

Search(index, query, top_k, fails) ==
    Catch(SearchBody(index, query, top_k, fails), << >>)

-----------------------------------------------------------------------------
(* AyurvedicRetriever *)

\* result["metadata"].get("source_file", "unknown")
SourceOf(meta) ==
    IF "source_file" \in DOMAIN meta THEN meta.source_file ELSE "unknown"

Reshape_Reversed(results) ==
    [i \in 1..Len(results) |->
        [content  |-> results[Len(results) + 1 - i].content,
         metadata |-> results[Len(results) + 1 - i].metadata,
         score    |-> results[Len(results) + 1 - i].similarity_score,
         source   |-> SourceOf(results[Len(results) + 1 - i].metadata)]]

\* lines 61-69: reshape each search result
Reshape(results) ==
    [i \in 1..Len(results) |->
        [content  |-> results[i].content,
         metadata |-> results[i].metadata,
         score    |-> results[i].similarity_score,
         source   |-> SourceOf(results[i].metadata)]]

RetrieveBody(handle, index, query, top_k, fails) ==
    IF handle = None
    THEN Return(<< >>)
    ELSE LET found == Search(index, query, top_k, fails)
         IN  IF found.raised THEN Raise ELSE Return(Reshape(found.value))

Retrieve(handle, index, query, top_k, fails) ==
    Catch(RetrieveBody(handle, index, query, top_k, fails), << >>)

NoContext == "No relevant context found."

ErrorContext == "Error retrieving context."

\* f"{score:.3f}" of a score that is a whole number
Fixed3(score) == ToString(score) \o ".000"

\* line 101: one numbered block
ContextPart(i, result) ==
    "Document " \o ToString(i) \o " (Source: " \o result.source
        \o ", Relevance: " \o Fixed3(result.score) \o "):\n"
        \o result.content \o "\n"

\* "\n".join(parts)
RECURSIVE JoinLines(_)
JoinLines(parts) ==
    IF parts = << >> THEN ""
    ELSE IF Len(parts) = 1 THEN parts[1]
    ELSE parts[1] \o "\n" \o JoinLines(Tail(parts))

RenderContext(results) ==
    JoinLines([i \in 1..Len(results) |-> ContextPart(i, results[i])])

GetRelevantContextBody(handle, index, query, top_k, fails) ==
    LET results == Retrieve(handle, index, query, top_k, fails)
    IN  IF results.raised THEN Raise
        ELSE IF results.value = << >> THEN Return(NoContext)
        ELSE Return(RenderContext(results.value))

GetRelevantContext_NoEmptyCheck(handle, index, query, top_k, fails) ==
    LET results == Retrieve(handle, index, query, top_k, fails)
    IN  IF results.raised THEN Return(ErrorContext)
        ELSE Return(RenderContext(results.value))

GetRelevantContext(handle, index, query, top_k, fails) ==
    Catch(GetRelevantContextBody(handle, index, query, top_k, fails), ErrorContext)

IsInitialized_HandleOnly(handle, index) == handle # None

\* is_initialized()
IsInitialized(handle, index) == handle # None /\ index # None

-----------------------------------------------------------------------------
(* State *)

IndexSize == IF faiss_index = None THEN 0 ELSE Len(faiss_index[1])

\* what a path holds: nothing, an unreadable directory, or a saved index
Absent == [kind |-> "absent", entries |-> << >>]

Corrupt == [kind |-> "corrupt", entries |-> << >>]

Saved(index) == [kind |-> "saved", entries |-> index]

NoFrame == [documents |-> << >>, metadatas |-> << >>]

NoCall == [op |-> "none"]

Idle(t) == pc[t] = "idle"

\* the caller has made no call yet
Fresh(t) == res[t] = NoCall

\* VectorStore.__init__ on an empty file system, and AyurvedicRetriever.__init__
\* on that store
Init ==
    /\ faiss_index = None
    /\ documents = << >>
    /\ metadata = << >>
    /\ disk = [p \in Paths |-> Absent]
    /\ retriever = None
    /\ pc = [t \in Threads |-> "idle"]
    /\ frame = [t \in Threads |-> NoFrame]
    /\ res = [t \in Threads |-> NoCall]

-----------------------------------------------------------------------------
(* VectorStore.add_documents, one action per step that reads or writes self *)

AddCall(chunks, done, ret, before) ==
    [op |-> "add_documents", chunks |-> chunks, done |-> done, ret |-> ret,
     before |-> before]

\* the except clause: log and return False
AddFail(t) ==
    /\ pc' = [pc EXCEPT ![t] = "idle"]
    /\ frame' = [frame EXCEPT ![t] = NoFrame]
    /\ res' = [res EXCEPT ![t] = AddCall(res[t].chunks, TRUE, FALSE, res[t].before)]

\* lines 53-70: empty check, extraction, embeddings, Document objects
AddBegin(t) ==
    /\ Idle(t)
    /\ \E chunks \in SeqsUpTo(Chunks, MaxBatch), embedFails \in BOOLEAN :
          /\ Len(documents) + Len(chunks) <= MaxDocs
          /\ IndexSize + Len(chunks) <= MaxDocs
          /\ IF \/ chunks = << >>
                \/ \E i \in 1..Len(chunks) : ~WellFormed(chunks[i])
                \/ embedFails
             THEN /\ res' = [res EXCEPT ![t] = AddCall(chunks, TRUE, FALSE, store)]
                  /\ UNCHANGED <<pc, frame>>
             ELSE /\ res' = [res EXCEPT ![t] = AddCall(chunks, FALSE, FALSE, store)]
                  /\ pc' = [pc EXCEPT ![t] = "l73"]
                  /\ frame' = [frame EXCEPT ![t] =
                        [documents |-> [i \in 1..Len(chunks) |-> Document(chunks[i])],
                         metadatas |-> [i \in 1..Len(chunks) |-> chunks[i].metadata]]]
    /\ UNCHANGED <<faiss_index, documents, metadata, disk, retriever>>

\* line 73: if self.faiss_index is None
AddCheck(t) ==
    /\ pc[t] = "l73"
    /\ pc' = [pc EXCEPT ![t] = IF faiss_index = None THEN "l76" ELSE "l83"]
    /\ UNCHANGED <<faiss_index, documents, metadata, disk, retriever, frame, res>>

\* lines 75-80: build a new index and assign it
AddCreate(t) ==
    /\ pc[t] = "l76"
    /\ \E buildFails \in BOOLEAN :
          IF buildFails
          THEN AddFail(t) /\ UNCHANGED faiss_index
          ELSE /\ faiss_index' = Some(FromDocuments(frame[t].documents))
               /\ pc' = [pc EXCEPT ![t] = "l87"]
               /\ UNCHANGED <<frame, res>>
    /\ UNCHANGED <<documents, metadata, disk, retriever>>

\* lines 82-84: append to the existing index object
AddAppend_Replace(t) ==
    /\ pc[t] = "l83"
    /\ \E appendFails \in BOOLEAN :
          IF appendFails
          THEN AddFail(t) /\ UNCHANGED faiss_index
          ELSE /\ faiss_index' = Some(FromDocuments(frame[t].documents))
               /\ pc' = [pc EXCEPT ![t] = "l87"]
               /\ UNCHANGED <<frame, res>>
    /\ UNCHANGED <<documents, metadata, disk, retriever>>

AddAppend_Partial(t) ==
    /\ pc[t] = "l83"
    /\ \E appendFails \in BOOLEAN :
          IF appendFails
          THEN /\ AddFail(t)
               /\ faiss_index' =
                     Some(IndexAdd(faiss_index[1], SubSeq(frame[t].documents, 1, 1)))
          ELSE /\ faiss_index' = Some(IndexAdd(faiss_index[1], frame[t].documents))
               /\ pc' = [pc EXCEPT ![t] = "l87"]
               /\ UNCHANGED <<frame, res>>
    /\ UNCHANGED <<documents, metadata, disk, retriever>>

AddAppend(t) ==
    /\ pc[t] = "l83"
    /\ \E appendFails \in BOOLEAN :
          IF appendFails
          THEN AddFail(t) /\ UNCHANGED faiss_index
          ELSE /\ faiss_index' = Some(IndexAdd(faiss_index[1], frame[t].documents))
               /\ pc' = [pc EXCEPT ![t] = "l87"]
               /\ UNCHANGED <<frame, res>>
    /\ UNCHANGED <<documents, metadata, disk, retriever>>

\* line 87: self.documents.extend(documents)
AddTrackDocuments(t) ==
    /\ pc[t] = "l87"
    /\ documents' = documents \o frame[t].documents
    /\ pc' = [pc EXCEPT ![t] = "l88"]
    /\ UNCHANGED <<faiss_index, metadata, disk, retriever, frame, res>>

\* lines 88-90: self.metadata.extend(metadatas); return True
AddTrackMetadata(t) ==
    /\ pc[t] = "l88"
    /\ metadata' = metadata \o frame[t].metadatas
    /\ pc' = [pc EXCEPT ![t] = "idle"]
    /\ frame' = [frame EXCEPT ![t] = NoFrame]
    /\ res' = [res EXCEPT ![t] = AddCall(res[t].chunks, TRUE, TRUE, res[t].before)]
    /\ UNCHANGED <<faiss_index, documents, disk, retriever>>

add_documents(t) ==
    \/ AddBegin(t)
    \/ AddCheck(t)
    \/ AddCreate(t)
    \/ AddAppend(t)
    \/ AddTrackDocuments(t)
    \/ AddTrackMetadata(t)

-----------------------------------------------------------------------------
(* VectorStore.search, save, load, clear *)

\* `path or self.store_path`
PathOr(path) == IF path = None THEN StorePath ELSE path[1]

\* what load does to the index, given what the path holds: [ret, index]
LoadOutcome_ClearOnFailure(index, held) ==
    IF held.kind = "saved"
    THEN [ret |-> TRUE, index |-> Some(held.entries)]
    ELSE [ret |-> FALSE, index |-> None]

LoadOutcome_Merge(index, held) ==
    IF held.kind = "saved"
    THEN [ret |-> TRUE,
          index |-> IF index = None THEN Some(held.entries)
                    ELSE Some(index[1] \o held.entries)]
    ELSE [ret |-> FALSE, index |-> index]

LoadOutcome(index, held) ==
    IF held.kind # "absent"
    THEN IF held.kind = "corrupt"
         THEN [ret |-> FALSE, index |-> index]
         ELSE [ret |-> TRUE, index |-> Some(held.entries)]
    ELSE [ret |-> FALSE, index |-> index]

search(t) ==
    /\ Idle(t)
    /\ \E query \in Queries, top_k \in TopKArgs, fails \in BOOLEAN :
          res' = [res EXCEPT ![t] =
                    [op |-> "search", query |-> query, top_k |-> top_k,
                     fails |-> fails,
                     out |-> Search(faiss_index, query, top_k, fails)]]
    /\ UNCHANGED <<faiss_index, documents, metadata, disk, retriever, pc, frame>>

\* `writeFails`: save_local raises, leaving the path as it was or half written
save(t) ==
    /\ Idle(t)
    /\ \E path \in SavePathArgs, writeFails \in BOOLEAN :
          LET save_path == PathOr(path)
              call(ret) == [op |-> "save", path |-> path, ret |-> ret]
          IN  IF faiss_index # None
              THEN IF writeFails
                   THEN /\ \E left \in {disk[save_path], Corrupt} :
                              disk' = [disk EXCEPT ![save_path] = left]
                        /\ res' = [res EXCEPT ![t] = call(FALSE)]
                   ELSE /\ disk' = [disk EXCEPT ![save_path] = Saved(faiss_index[1])]
                        /\ res' = [res EXCEPT ![t] = call(TRUE)]
              ELSE /\ res' = [res EXCEPT ![t] = call(FALSE)]
                   /\ UNCHANGED disk
    /\ UNCHANGED <<faiss_index, documents, metadata, retriever, pc, frame>>

load(t) ==
    /\ Idle(t)
    /\ \E path \in LoadPathArgs :
          LET outcome == LoadOutcome(faiss_index, disk[PathOr(path)])
          IN  /\ faiss_index' = outcome.index
              /\ res' = [res EXCEPT ![t] =
                    [op |-> "load", path |-> path, ret |-> outcome.ret]]
    /\ UNCHANGED <<documents, metadata, disk, retriever, pc, frame>>

\* a clear that also removes what the store path holds
clear_RemovesStore(t) ==
    /\ Idle(t)
    /\ faiss_index' = None
    /\ documents' = << >>
    /\ metadata' = << >>
    /\ disk' = [disk EXCEPT ![StorePath] = Absent]
    /\ res' = [res EXCEPT ![t] = [op |-> "clear"]]
    /\ UNCHANGED <<retriever, pc, frame>>

clear(t) ==
    /\ Idle(t)
    /\ faiss_index' = None
    /\ documents' = << >>
    /\ metadata' = << >>
    /\ res' = [res EXCEPT ![t] = [op |-> "clear"]]
    /\ UNCHANGED <<disk, retriever, pc, frame>>

-----------------------------------------------------------------------------
(* AyurvedicRetriever.__init__, retrieve, get_relevant_context *)

\* _initialize_retriever: the handle is the store when the store has an index
InitializeRetriever(index) == IF index # None THEN Some("vector_store") ELSE None

\* AyurvedicRetriever(vector_store): a new retriever replaces the one modelled
new_retriever(t) ==
    /\ Idle(t)
    /\ retriever' = InitializeRetriever(faiss_index)
    /\ res' = [res EXCEPT ![t] = [op |-> "new_retriever"]]
    /\ UNCHANGED <<faiss_index, documents, metadata, disk, pc, frame>>

retrieve(t) ==
    /\ Idle(t)
    /\ \E query \in Queries, top_k \in TopKArgs, fails \in BOOLEAN :
          res' = [res EXCEPT ![t] =
                    [op |-> "retrieve", query |-> query, top_k |-> top_k,
                     fails |-> fails,
                     out |-> Retrieve(retriever, faiss_index, query, top_k, fails)]]
    /\ UNCHANGED <<faiss_index, documents, metadata, disk, retriever, pc, frame>>

get_relevant_context(t) ==
    /\ Idle(t)
    /\ \E query \in Queries, top_k \in TopKArgs, fails \in BOOLEAN :
          res' = [res EXCEPT ![t] =
                    [op |-> "get_relevant_context", query |-> query,
                     top_k |-> top_k, fails |-> fails,
                     out |-> GetRelevantContext(retriever, faiss_index, query,
                                                top_k, fails)]]
    /\ UNCHANGED <<faiss_index, documents, metadata, disk, retriever, pc, frame>>

is_initialized(t) ==
    /\ Idle(t)
    /\ res' = [res EXCEPT ![t] =
          [op |-> "is_initialized", ret |-> IsInitialized(retriever, faiss_index)]]
    /\ UNCHANGED <<faiss_index, documents, metadata, disk, retriever, pc, frame>>

-----------------------------------------------------------------------------
(* AyurvedicRetriever.retrieve_with_filters, get_retrieval_statistics *)

\* a chunk whose source file name has an upper-case letter
ChunkC == [content |-> "ab", metadata |-> [source_file |-> "F2.txt"]]

RetrievalChunks == {ChunkA, ChunkB, ChunkC}

\* the source_filter argument: not given, empty, and texts in either case
SourceFilters == {None, Some(""), Some("F1"), Some("txt"), Some("UN")}

\* the min_score argument; 0 is its default
MinScores == {0, 1}

\* the characters of the strings that occur as a source or as a filter
Chars(str) ==
    CASE str = "f1.txt"  -> <<"f", "1", ".", "t", "x", "t">>
      [] str = "F2.txt"  -> <<"F", "2", ".", "t", "x", "t">>
      [] str = "unknown" -> <<"u", "n", "k", "n", "o", "w", "n">>
      [] str = "F1"      -> <<"F", "1">>
      [] str = "txt"     -> <<"t", "x", "t">>
      [] str = "UN"      -> <<"U", "N">>
      [] str = ""        -> << >>

LowerChar(c) ==
    CASE c = "F" -> "f"
      [] c = "U" -> "u"
      [] c = "N" -> "n"
      [] OTHER   -> c

\* str.lower()
Lower(chars) == [i \in 1..Len(chars) |-> LowerChar(chars[i])]

\* `needle in hay` for strings
Contains(needle, hay) ==
    \E i \in 0..(Len(hay) - Len(needle)) : SubSeq(hay, i + 1, i + Len(needle)) = needle

\* truthiness of an optional string: None and "" are falsy
TruthyStr(opt) == opt # None /\ opt[1] # ""

\* lines 131-140: the result is skipped unless it passes both filters
Passes_CaseSensitive(result, source_filter, min_score) ==
    /\ ~(result.score < min_score)
    /\ ~(/\ TruthyStr(source_filter)
          /\ ~Contains(Chars(source_filter[1]), Chars(result.source)))

Passes(result, source_filter, min_score) ==
    /\ ~(result.score < min_score)
    /\ ~(/\ TruthyStr(source_filter)
          /\ ~Contains(Lower(Chars(source_filter[1])), Lower(Chars(result.source))))

RetrieveWithFiltersBody(handle, index, query, source_filter, min_score, top_k, fails) ==
    LET results == Retrieve(handle, index, query, top_k, fails)
        Keep(result) == Passes(result, source_filter, min_score)
    IN  IF results.raised THEN Raise
        ELSE Return(SelectSeq(results.value, Keep))

RetrieveWithFilters(handle, index, query, source_filter, min_score, top_k, fails) ==
    Catch(RetrieveWithFiltersBody(handle, index, query, source_filter, min_score,
                                  top_k, fails), << >>)

retrieve_with_filters(t) ==
    /\ Fresh(t)
    /\ \E query \in Queries, source_filter \in SourceFilters,
          min_score \in MinScores, top_k \in TopKArgs, fails \in BOOLEAN :
          res' = [res EXCEPT ![t] =
                    [op |-> "retrieve_with_filters", query |-> query,
                     source_filter |-> source_filter, min_score |-> min_score,
                     top_k |-> top_k, fails |-> fails,
                     out |-> RetrieveWithFilters(retriever, faiss_index, query,
                                source_filter, min_score, top_k, fails)]]
    /\ UNCHANGED <<faiss_index, documents, metadata, disk, retriever, pc, frame>>

RECURSIVE Sum(_)
Sum(xs) == IF xs = << >> THEN 0 ELSE xs[1] + Sum(Tail(xs))

\* min(scores), max(scores)
MinOf(xs) == CHOOSE x \in {xs[i] : i \in 1..Len(xs)} :
                \A i \in 1..Len(xs) : x <= xs[i]

MaxOf(xs) == CHOOSE x \in {xs[i] : i \in 1..Len(xs)} :
                \A i \in 1..Len(xs) : x >= xs[i]

\* a float that is a quotient of integers
Quotient(num, den) == [num |-> num, den |-> den]

\* the lists list(set(...)) can produce: each element once, in any order
ListsOfSet(S) ==
    { order \in [1..Cardinality(S) -> S] : \A x \in S : \E i \in DOMAIN order : order[i] = x }

SourcesOf(results) == {results[i].source : i \in 1..Len(results)}

\* lines 160-180; `sources`: the list that list(set(...)) produced
GetRetrievalStatisticsBody(handle, index, query, fails, sources) ==
    LET results == Retrieve(handle, index, query, None, fails)
        scores == [i \in 1..Len(results.value) |-> results.value[i].score]
    IN  IF results.raised THEN Raise
        ELSE IF results.value = << >>
        THEN Return([query         |-> query,
                     total_results |-> 0,
                     average_score |-> Quotient(0, 1),
                     score_range   |-> <<0, 0>>,
                     sources       |-> << >>])
        ELSE Return([query          |-> query,
                     total_results  |-> Len(results.value),
                     average_score  |-> Quotient(Sum(scores), Len(scores)),
                     score_range    |-> <<MinOf(scores), MaxOf(scores)>>,
                     sources        |-> sources,
                     unique_sources |-> Len(sources)])

GetRetrievalStatistics(handle, index, query, fails, sources) ==
    Catch(GetRetrievalStatisticsBody(handle, index, query, fails, sources),
          [query |-> query, error |-> "error"])

get_retrieval_statistics(t) ==
    /\ Fresh(t)
    /\ \E query \in Queries, fails \in BOOLEAN :
          \E sources \in ListsOfSet(SourcesOf(
                    Retrieve(retriever, faiss_index, query, None, fails).value)) :
             res' = [res EXCEPT ![t] =
                       [op |-> "get_retrieval_statistics", query |-> query,
                        fails |-> fails,
                        out |-> GetRetrievalStatistics(retriever, faiss_index,
                                                       query, fails, sources)]]
    /\ UNCHANGED <<faiss_index, documents, metadata, disk, retriever, pc, frame>>

-----------------------------------------------------------------------------
(* Text: a Python str as the sequence of its characters *)

NL == "\n"

Whitespace == {" ", NL}

Alphabet == {"x", ".", " ", NL}

Texts == SeqsUpTo(Alphabet, MaxTextLen)

\* str.strip()
RECURSIVE LStrip(_)
LStrip(text) ==
    IF text # << >> /\ Head(text) \in Whitespace THEN LStrip(Tail(text)) ELSE text

RECURSIVE RStrip(_)
RStrip(text) ==
    IF text # << >> /\ text[Len(text)] \in Whitespace
    THEN RStrip(SubSeq(text, 1, Len(text) - 1))
    ELSE text

Strip(text) == RStrip(LStrip(text))

\* separator.join(docs)
RECURSIVE Join(_, _)
Join(docs, separator) ==
    IF docs = << >> THEN << >>
    ELSE IF Len(docs) = 1 THEN docs[1]
    ELSE docs[1] \o separator \o Join(Tail(docs), separator)

-----------------------------------------------------------------------------
(* langchain's RecursiveCharacterTextSplitter, as TextChunker configures it:
   length_function=len, keep_separator and strip_whitespace at their defaults *)

\* separators=["\n\n", "\n", ". ", " ", ""]
Separators == << <<NL, NL>>, <<NL>>, <<".", " ">>, <<" ">>, << >> >>

OccursAt(separator, text, i) ==
    /\ i + Len(separator) - 1 <= Len(text)
    /\ SubSeq(text, i, i + Len(separator) - 1) = separator

\* re.search(separator, text) for a non-empty separator
Occurs(separator, text) == \E i \in 1..Len(text) : OccursAt(separator, text, i)

FirstAt(separator, text) ==
    CHOOSE i \in 1..Len(text) :
        /\ OccursAt(separator, text, i)
        /\ \A j \in 1..(i - 1) : ~OccursAt(separator, text, j)

\* the pieces of text between the matches of the separator, left to right
RECURSIVE Pieces(_, _)
Pieces(text, separator) ==
    IF ~Occurs(separator, text) THEN <<text>>
    ELSE LET i == FirstAt(separator, text)
         IN  <<SubSeq(text, 1, i - 1)>>
                \o Pieces(SubSeq(text, i + Len(separator), Len(text)), separator)

\* _split_text_with_regex(text, separator, keep_separator=True): the separator
\* stays at the start of the piece that follows it; "" splits into characters;
\* empty pieces are removed
SplitTextWithRegex(text, separator) ==
    LET between == Pieces(text, separator)
        splits == IF separator = << >>
                  THEN [i \in 1..Len(text) |-> <<text[i]>>]
                  ELSE [i \in 1..Len(between) |->
                           IF i = 1 THEN between[1] ELSE separator \o between[i]]
        NonEmpty(piece) == piece # << >>
    IN  SelectSeq(splits, NonEmpty)

\* _join_docs: the joined text stripped, or None when nothing is left
JoinDocs(docs, separator) ==
    LET text == Strip(Join(docs, separator))
    IN  IF text = << >> THEN None ELSE Some(text)

\* the while loop of _merge_splits: drop pieces from the front of current_doc
RECURSIVE DropFront(_, _, _, _, _)
DropFront(current_doc, total, len, separator, cfg) ==
    IF \/ total > cfg.chunk_overlap
       \/ /\ total + len + (IF Len(current_doc) > 0 THEN Len(separator) ELSE 0)
                > cfg.chunk_size
          /\ total > 0
    THEN DropFront(Tail(current_doc),
                   total - (Len(current_doc[1])
                            + (IF Len(current_doc) > 1 THEN Len(separator) ELSE 0)),
                   len, separator, cfg)
    ELSE [current_doc |-> current_doc, total |-> total]

\* the for loop of _merge_splits from piece k on; a doc that is None adds nothing
RECURSIVE MergeFrom(_, _, _, _, _, _, _)
MergeFrom(splits, k, docs, current_doc, total, separator, cfg) ==
    IF k > Len(splits)
    THEN docs \o JoinDocs(current_doc, separator)
    ELSE LET d == splits[k]
             flush == /\ total + Len(d)
                            + (IF Len(current_doc) > 0 THEN Len(separator) ELSE 0)
                          > cfg.chunk_size
                      /\ Len(current_doc) > 0
             kept == IF flush
                     THEN DropFront(current_doc, total, Len(d), separator, cfg)
                     ELSE [current_doc |-> current_doc, total |-> total]
             grown == Append(kept.current_doc, d)
         IN  MergeFrom(splits, k + 1,
                       IF flush THEN docs \o JoinDocs(current_doc, separator) ELSE docs,
                       grown,
                       kept.total + Len(d)
                           + (IF Len(grown) > 1 THEN Len(separator) ELSE 0),
                       separator, cfg)

MergeSplits_NoFlush(splits, separator, cfg) == JoinDocs(splits, separator)

\* _merge_splits(splits, separator)
MergeSplits(splits, separator, cfg) ==
    MergeFrom(splits, 1, << >>, << >>, 0, separator, cfg)

\* the separator pieces are merged with: "" since keep_separator is set
MergeSeparator == << >>

\* the first separator of the list that is "" or occurs in the text
SeparatorIndex(text, separators) ==
    CHOOSE i \in 1..Len(separators) :
        /\ separators[i] = << >> \/ Occurs(separators[i], text)
        /\ \A j \in 1..(i - 1) :
              ~(separators[j] = << >> \/ Occurs(separators[j], text))

RECURSIVE SplitText(_, _, _)
RECURSIVE SplitEach(_, _, _, _, _, _)

\* the for loop of _split_text from piece k on
SplitEach(splits, k, final_chunks, good_splits, new_separators, cfg) ==
    LET merged == IF good_splits # << >>
                  THEN final_chunks \o MergeSplits(good_splits, MergeSeparator, cfg)
                  ELSE final_chunks
    IN  IF k > Len(splits) THEN merged
        ELSE IF Len(splits[k]) < cfg.chunk_size
        THEN SplitEach(splits, k + 1, final_chunks, Append(good_splits, splits[k]),
                       new_separators, cfg)
        ELSE SplitEach(splits, k + 1,
                       merged \o (IF new_separators = << >>
                                  THEN <<splits[k]>>
                                  ELSE SplitText(splits[k], new_separators, cfg)),
                       << >>, new_separators, cfg)

\* _split_text(text, separators)
SplitText(text, separators, cfg) ==
    LET i == SeparatorIndex(text, separators)
        new_separators == IF separators[i] = << >> THEN << >>
                          ELSE SubSeq(separators, i + 1, Len(separators))
    IN  SplitEach(SplitTextWithRegex(text, separators[i]), 1, << >>, << >>,
                  new_separators, cfg)

-----------------------------------------------------------------------------
(* TextChunker *)

\* settings.chunk_size and settings.chunk_overlap, read from the environment
ChunkSettings == {[chunk_size |-> 3, chunk_overlap |-> 0],
                  [chunk_size |-> 3, chunk_overlap |-> 2]}

\* the chunk_size and chunk_overlap arguments of TextChunker(...)
ChunkSizeArgs == {None, Some(1), Some(2)}

ChunkOverlapArgs == {None, Some(0), Some(1), Some(2)}

\* __init__: the splitter refuses an overlap larger than the chunk size
TextChunkerInit(chunk_size, chunk_overlap, settings) ==
    LET cfg == [chunk_size    |-> PyOr(chunk_size, settings.chunk_size),
                chunk_overlap |-> PyOr(chunk_overlap, settings.chunk_overlap)]
    IN  IF cfg.chunk_overlap > cfg.chunk_size THEN Raise ELSE Return(cfg)

\* {}
EmptyDict == [key \in {} |-> key]

\* {**defaults, **extra}: the keys of extra win
DictMerge(defaults, extra) == extra @@ defaults

NonBlank(chunk) == chunk.content # << >>

\* the metadata argument of chunk_text
MetadataArgs == {None, Some([title |-> "t"])}

\* chunk_text(text, metadata)
ChunkText(text, meta, cfg) ==
    IF Strip(text) = << >> THEN << >>
    ELSE LET text_chunks == SplitText(text, Separators, cfg)
             chunk(i) ==
                [chunk_id |-> "text_chunk_" \o ToString(i - 1),
                 content  |-> Strip(text_chunks[i]),
                 metadata |-> DictMerge([chunk_index  |-> i - 1,
                                         total_chunks |-> Len(text_chunks)],
                                        IF meta = None THEN EmptyDict
                                        ELSE meta[1])]
         IN  SelectSeq([i \in 1..Len(text_chunks) |-> chunk(i)], NonBlank)

\* _chunk_document(document); a document without file_name, file_path or
\* file_type raises KeyError at its first non-blank piece
ChunkDocument(document, cfg) ==
    LET content == IF "content" \in DOMAIN document THEN document.content ELSE << >>
        text_chunks == SplitText(content, Separators, cfg)
        chunk(i) ==
           [chunk_id |-> document.file_name \o "_chunk_" \o ToString(i - 1),
            content  |-> Strip(text_chunks[i]),
            metadata |-> DictMerge([source_file  |-> document.file_name,
                                    file_path    |-> document.file_path,
                                    file_type    |-> document.file_type,
                                    chunk_index  |-> i - 1,
                                    total_chunks |-> Len(text_chunks)],
                                   IF "metadata" \in DOMAIN document
                                   THEN document.metadata ELSE EmptyDict)]
    IN  IF Strip(content) = << >> THEN Return(<< >>)
        ELSE IF ~({"file_name", "file_path", "file_type"} \subseteq DOMAIN document)
        THEN Raise
        ELSE Return(SelectSeq([i \in 1..Len(text_chunks) |-> chunk(i)], NonBlank))

\* chunk_documents(documents): a document that raises contributes nothing
RECURSIVE ChunkDocuments(_, _)
ChunkDocuments(docs, cfg) ==
    IF docs = << >> THEN << >>
    ELSE Catch(ChunkDocument(Head(docs), cfg), << >>).value
            \o ChunkDocuments(Tail(docs), cfg)

\* a document as the loader returns it for a .txt file
TxtDocument(path, name, content) ==
    [file_path |-> path, file_name |-> name, file_type |-> "txt",
     content |-> content, metadata |-> [title |-> "f1"]]

\* what follows the first document in the list handed to chunk_documents:
\* nothing, a dictionary without file_name, or a file of the same name
\* from another directory
OtherDocuments ==
    { << >>,
      << [content |-> <<"x">>] >>,
      << TxtDocument("e/f1.txt", "f1.txt", <<"x", " ", "x">>) >> }

\* TextChunker(chunk_size, chunk_overlap) under the given settings
new_text_chunker(t) ==
    /\ Fresh(t)
    /\ \E settings \in ChunkSettings, chunk_size \in ChunkSizeArgs,
          chunk_overlap \in ChunkOverlapArgs :
          res' = [res EXCEPT ![t] =
                [op |-> "TextChunker", settings |-> settings,
                 chunk_size |-> chunk_size, chunk_overlap |-> chunk_overlap,
                 out |-> TextChunkerInit(chunk_size, chunk_overlap, settings)]]
    /\ UNCHANGED <<faiss_index, documents, metadata, disk, retriever, pc, frame>>

chunk_text(t) ==
    /\ Fresh(t)
    /\ \E settings \in ChunkSettings, chunk_size \in ChunkSizeArgs,
          chunk_overlap \in ChunkOverlapArgs, text \in Texts,
          meta \in MetadataArgs :
          LET chunker == TextChunkerInit(chunk_size, chunk_overlap, settings)
          IN  res' = [res EXCEPT ![t] =
                [op |-> "chunk_text", chunker |-> chunker, text |-> text,
                 out |-> IF chunker.raised THEN << >>
                         ELSE ChunkText(text, meta, chunker.value)]]
    /\ UNCHANGED <<faiss_index, documents, metadata, disk, retriever, pc, frame>>

chunk_documents(t) ==
    /\ Fresh(t)
    /\ \E settings \in ChunkSettings, chunk_size \in ChunkSizeArgs,
          chunk_overlap \in ChunkOverlapArgs, text \in Texts,
          others \in OtherDocuments :
          LET chunker == TextChunkerInit(chunk_size, chunk_overlap, settings)
              docs == <<TxtDocument("d/f1.txt", "f1.txt", text)>> \o others
          IN  res' = [res EXCEPT ![t] =
                [op |-> "chunk_documents", chunker |-> chunker, text |-> text,
                 documents |-> docs,
                 out |-> IF chunker.raised THEN << >>
                         ELSE ChunkDocuments(docs, chunker.value)]]
    /\ UNCHANGED <<faiss_index, documents, metadata, disk, retriever, pc, frame>>

-----------------------------------------------------------------------------
(* EmbeddingManager *)

\* self.embedding_dimension: the length of the vectors the model produces
EmbeddingDimension == Len(Embed("a"))

EmbedTexts == {"a", "b"}

\* the batch_size argument; range() refuses a step of 0
BatchSizes == {0, 1, 2}

\* generate_embeddings(texts); `fails`: self.model.encode raises, and the
\* exception is logged and raised again
GenerateEmbeddings(texts, fails) ==
    IF fails THEN Raise ELSE Return([i \in 1..Len(texts) |-> Embed(texts[i])])

ZeroEmbeddings_One(n) == <<[k \in 1..EmbeddingDimension |-> 0]>>

\* [[0.0] * self.embedding_dimension] * n
ZeroEmbeddings(n) == [i \in 1..n |-> [k \in 1..EmbeddingDimension |-> 0]]

\* the loop of lines 113-122 from offset i (0-based) on; `failing`: the numbers
\* of the batches whose embedding call raises
RECURSIVE BatchLoop(_, _, _, _, _)
BatchLoop(texts, i, batch_size, failing, all_embeddings) ==
    IF i >= Len(texts) THEN all_embeddings
    ELSE LET batch_texts == SubSeq(texts, i + 1, Min(i + batch_size, Len(texts)))
             batch == GenerateEmbeddings(batch_texts, (i \div batch_size) + 1 \in failing)
         IN  BatchLoop(texts, i + batch_size, batch_size, failing,
                       all_embeddings \o (IF batch.raised
                                          THEN ZeroEmbeddings(Len(batch_texts))
                                          ELSE batch.value))

\* batch_generate_embeddings(texts, batch_size)
BatchGenerateEmbeddings(texts, batch_size, failing) ==
    IF batch_size = 0 THEN Raise
    ELSE IF batch_size < 0 THEN Return(<< >>)
    ELSE Return(BatchLoop(texts, 0, batch_size, failing, << >>))

batch_generate_embeddings(t) ==
    /\ Fresh(t)
    /\ \E texts \in SeqsUpTo(EmbedTexts, MaxTexts), batch_size \in BatchSizes,
          failing \in SUBSET (1..MaxTexts) :
          res' = [res EXCEPT ![t] =
                    [op |-> "batch_generate_embeddings", texts |-> texts,
                     batch_size |-> batch_size, failing |-> failing,
                     out |-> BatchGenerateEmbeddings(texts, batch_size, failing)]]
    /\ UNCHANGED <<faiss_index, documents, metadata, disk, retriever, pc, frame>>

\* embedding vectors handed to similarity: unit vectors, a longer vector, the
\* zero vector, and a vector of another dimension
Vectors == {<<1, 0>>, <<0, 1>>, <<3, 4>>, <<-1, 0>>, <<0, 0>>, <<1, 0, 0>>}

QueryVectors == {<<1, 0>>, <<3, 4>>}

RECURSIVE Dot(_, _)
Dot(u, v) == IF u = << >> THEN 0 ELSE u[1] * v[1] + Dot(Tail(u), Tail(v))

\* the Euclidean norm of a vector whose norm is a whole number
Norm(v) == CHOOSE n \in 0..Dot(v, v) : n * n = Dot(v, v)

\* cosine_similarity of two row vectors; a zero vector has similarity 0 with
\* everything; vectors of different lengths raise
CosineSimilarity(u, v) ==
    IF Len(u) # Len(v) THEN Raise
    ELSE IF Norm(u) = 0 \/ Norm(v) = 0 THEN Return(Quotient(0, 1))
    ELSE Return(Quotient(Dot(u, v), Norm(u) * Norm(v)))

\* similarity(embedding1, embedding2)
Similarity(embedding1, embedding2) ==
    Catch(CosineSimilarity(embedding1, embedding2), Quotient(0, 1)).value

\* a < b for floats that are quotients with positive denominators
Less(a, b) == a.num * b.den < b.num * a.den

\* similarities[:top_k]
SliceTo(list, k) ==
    IF k >= 0 THEN SubSeq(list, 1, Min(k, Len(list)))
    ELSE SubSeq(list, 1, IF Len(list) + k > 0 THEN Len(list) + k ELSE 0)

SortDescending_TiesReversed(pairs) ==
    LET before(i) == Cardinality({ j \in 1..Len(pairs) :
                        \/ Less(pairs[i][2], pairs[j][2])
                        \/ ~Less(pairs[j][2], pairs[i][2]) /\ j > i })
    IN  [r \in 1..Len(pairs) |->
            pairs[CHOOSE i \in 1..Len(pairs) : before(i) = r - 1]]

\* list.sort(key=lambda x: x[1], reverse=True): descending by score, pairs of
\* equal score in the order they had
SortDescending(pairs) ==
    LET before(i) == Cardinality({ j \in 1..Len(pairs) :
                        \/ Less(pairs[i][2], pairs[j][2])
                        \/ ~Less(pairs[j][2], pairs[i][2]) /\ j < i })
    IN  [r \in 1..Len(pairs) |->
            pairs[CHOOSE i \in 1..Len(pairs) : before(i) = r - 1]]

\* the top_k argument; 5 is its default
FindTopKArgs == {-1, 0, 1, 2, 5}

\* find_most_similar(query_embedding, candidate_embeddings, top_k)
FindMostSimilar(query_embedding, candidate_embeddings, top_k) ==
    LET similarities ==
            [i \in 1..Len(candidate_embeddings) |->
                <<i - 1, Similarity(query_embedding, candidate_embeddings[i])>>]
    IN  SliceTo(SortDescending(similarities), top_k)

find_most_similar(t) ==
    /\ Fresh(t)
    /\ \E query_embedding \in QueryVectors,
          candidate_embeddings \in SeqsUpTo(Vectors, MaxCandidates),
          top_k \in FindTopKArgs :
          res' = [res EXCEPT ![t] =
                    [op |-> "find_most_similar", query |-> query_embedding,
                     candidates |-> candidate_embeddings, top_k |-> top_k,
                     out |-> FindMostSimilar(query_embedding, candidate_embeddings,
                                             top_k)]]
    /\ UNCHANGED <<faiss_index, documents, metadata, disk, retriever, pc, frame>>

-----------------------------------------------------------------------------
(* DocumentLoader *)

\* settings.supported_formats, default of SUPPORTED_FORMATS
SupportedFormats == {"pdf", "docx", "txt"}

Suffixes == {".txt", ".PDF", ".docx", ".md"}

\* file_path.suffix.lower()
SuffixLower(suffix) == CASE suffix = ".PDF" -> ".pdf" [] OTHER -> suffix

\* the text a file holds: of a .txt its content, of a .pdf its one page, of a
\* .docx its one paragraph
FileTexts == {<<"x">>, <<" ", "x">>, <<" ">>}

\* sizes in MB: the largest accepted, and one above it
FileSizesMb == {MaxFileSizeMb, MaxFileSizeMb + 1}

\* a regular file; `readable`: opening and parsing it succeeds
RegularFiles ==
    [kind : {"file"}, stem : {"a"}, suffix : Suffixes, size_mb : FileSizesMb,
     readable : BOOLEAN, text : FileTexts]

SubDirectory == [kind |-> "dir"]

\* what rglob("*") can yield
Entries == RegularFiles \cup {SubDirectory}

\* the i-th entry rglob yields lies in a directory of its own
PathOf(i, file) == "docs/" \o ToString(i) \o "/" \o file.stem \o file.suffix

\* "\n--- Page 1 ---\n"
PageMarker ==
    <<NL, "-", "-", "-", " ", "P", "a", "g", "e", " ", "1", " ", "-", "-", "-", NL>>

\* _load_pdf
LoadPdf(path, file) ==
    IF ~file.readable THEN Raise
    ELSE Return([file_path |-> path,
                 file_name |-> file.stem \o file.suffix,
                 file_type |-> "pdf",
                 content   |-> Strip(IF Strip(file.text) # << >>
                                     THEN PageMarker \o file.text \o <<NL>>
                                     ELSE << >>),
                 metadata  |-> [num_pages |-> 1, title |-> file.stem]])

\* _load_docx
LoadDocx(path, file) ==
    IF ~file.readable THEN Raise
    ELSE Return([file_path |-> path,
                 file_name |-> file.stem \o file.suffix,
                 file_type |-> "docx",
                 content   |-> Strip(IF Strip(file.text) # << >>
                                     THEN file.text \o <<NL>>
                                     ELSE << >>),
                 metadata  |-> [num_paragraphs |-> 1, title |-> file.stem]])

\* _load_txt
LoadTxt(path, file) ==
    IF ~file.readable THEN Raise
    ELSE Return([file_path |-> path,
                 file_name |-> file.stem \o file.suffix,
                 file_type |-> "txt",
                 content   |-> Strip(file.text),
                 metadata  |-> [title |-> file.stem]])

\* a loader's result as load_document returns it: the document, or None
Loaded(out) == IF out.raised THEN Raise ELSE Return(Some(out.value))

LoadDocumentBody_SizeAtLeast(path, file) ==
    IF file.size_mb >= MaxFileSizeMb THEN Return(None)
    ELSE IF SuffixLower(file.suffix) = ".pdf" THEN Loaded(LoadPdf(path, file))
    ELSE IF SuffixLower(file.suffix) = ".docx" THEN Loaded(LoadDocx(path, file))
    ELSE IF SuffixLower(file.suffix) = ".txt" THEN Loaded(LoadTxt(path, file))
    ELSE Return(None)

\* the try block of load_document
LoadDocumentBody(path, file) ==
    IF file.size_mb > MaxFileSizeMb THEN Return(None)
    ELSE IF SuffixLower(file.suffix) = ".pdf" THEN Loaded(LoadPdf(path, file))
    ELSE IF SuffixLower(file.suffix) = ".docx" THEN Loaded(LoadDocx(path, file))
    ELSE IF SuffixLower(file.suffix) = ".txt" THEN Loaded(LoadTxt(path, file))
    ELSE Return(None)

\* load_document(file_path)
LoadDocument(path, file) == Catch(LoadDocumentBody(path, file), None)

\* _is_supported_format(file_path)
IsSupportedFormat(file) ==
    SuffixLower(file.suffix) \in { "." \o fmt : fmt \in SupportedFormats }

\* `if doc:` holds for a document, a dictionary with keys, and not for None
TruthyDoc(doc) == doc # None

\* the loop of lines 40-47 from the i-th entry on
RECURSIVE LoadEach(_, _, _)
LoadEach(listing, i, docs) ==
    IF i > Len(listing) THEN docs
    ELSE IF listing[i].kind = "file" /\ IsSupportedFormat(listing[i])
    THEN LET doc == Catch(LoadDocument(PathOf(i, listing[i]), listing[i]), None).value
         IN  LoadEach(listing, i + 1, IF TruthyDoc(doc) THEN docs \o doc ELSE docs)
    ELSE LoadEach(listing, i + 1, docs)

\* load_documents_from_directory(directory_path); `listing`: what rglob yields
LoadDocumentsFromDirectory(exists, listing) ==
    IF ~exists THEN Return(<< >>) ELSE Return(LoadEach(listing, 1, << >>))

load_documents_from_directory(t) ==
    /\ Fresh(t)
    /\ \E exists \in BOOLEAN, listing \in SeqsUpTo(Entries, MaxFiles) :
          /\ ~exists => listing = << >>
          /\ res' = [res EXCEPT ![t] =
                [op |-> "load_documents_from_directory", exists |-> exists,
                 listing |-> listing,
                 out |-> LoadDocumentsFromDirectory(exists, listing)]]
    /\ UNCHANGED <<faiss_index, documents, metadata, disk, retriever, pc, frame>>

load_document(t) ==
    /\ Fresh(t)
    /\ \E file \in RegularFiles :
          res' = [res EXCEPT ![t] =
                [op |-> "load_document", file |-> file,
                 out |-> LoadDocument(PathOf(1, file), file)]]
    /\ UNCHANGED <<faiss_index, documents, metadata, disk, retriever, pc, frame>>

-----------------------------------------------------------------------------
(* AyurvedicDiagnosticEngine.analyze_symptoms *)

\* the prompt manager the engine holds: the repository's PromptManager, which
\* defines neither create_diagnostic_prompt nor create_simple_prompt, or an
\* object that defines both
PromptManagers == {"PromptManager", "with_both_methods"}

\* what generate_json_response returns; it catches its own exceptions
Generations == {[parsed_json |-> [diagnosis |-> "d"]],
                [error |-> "e", content |-> "c"]}

\* lines 167 and 169: the prompt, or AttributeError
CreatePrompt(prompt_manager, symptoms, context) ==
    IF prompt_manager = "PromptManager" THEN Raise
    ELSE IF context # ""
    THEN Return([kind |-> "diagnostic", symptoms |-> symptoms, context |-> context])
    ELSE Return([kind |-> "simple", symptoms |-> symptoms])

\* _parse_diagnostic_response for the two shapes of generation result
ParseDiagnosticResponse(result) ==
    IF "error" \in DOMAIN result
    THEN [error |-> result.error, raw_content |-> result.content]
    ELSE result.parsed_json

\* lines 158-163: the context string
Context(handle, index, symptoms, use_rag, fails) ==
    IF use_rag /\ IsInitialized(handle, index)
    THEN GetRelevantContext(handle, index, symptoms, None, fails).value
    ELSE ""

\* analyze_symptoms(symptoms, use_rag); `prompts`: the prompts handed to the
\* generation client during the call
AnalyzeSymptoms(handle, index, symptoms, use_rag, fails, prompt_manager, generation) ==
    LET context == Context(handle, index, symptoms, use_rag, fails)
        prompt == CreatePrompt(prompt_manager, symptoms, context)
    IN  IF prompt.raised
        THEN [prompts |-> << >>,
              result  |-> [error    |-> "Diagnostic analysis failed",
                           symptoms |-> symptoms,
                           use_rag  |-> use_rag]]
        ELSE [prompts |-> <<prompt.value>>,
              result  |-> DictMerge(ParseDiagnosticResponse(generation),
                             [metadata |-> [symptoms       |-> symptoms,
                                            use_rag        |-> use_rag,
                                            context_length |-> Len(context)]])]

analyze_symptoms(t) ==
    /\ Fresh(t)
    /\ \E symptoms \in Queries, use_rag \in BOOLEAN, fails \in BOOLEAN,
          prompt_manager \in PromptManagers, generation \in Generations :
          res' = [res EXCEPT ![t] =
                    [op |-> "analyze_symptoms", query |-> symptoms,
                     use_rag |-> use_rag, fails |-> fails,
                     prompt_manager |-> prompt_manager, generation |-> generation,
                     out |-> AnalyzeSymptoms(retriever, faiss_index, symptoms,
                                use_rag, fails, prompt_manager, generation)]]
    /\ UNCHANGED <<faiss_index, documents, metadata, disk, retriever, pc, frame>>

-----------------------------------------------------------------------------
(* TextChunker.merge_small_chunks and filter_chunks_by_length *)

\* chunks as chunk_documents emits them, of one or two characters, from two
\* source files, and a chunk of chunk_text, which has no source_file
SourcedChunks ==
    [chunk_id : {"c"}, content : {<<"x">>, <<"x", "x">>},
     metadata : [source_file : {"f1.txt", "f2.txt"}, total_chunks : {1, 2}]]

TextChunk == [chunk_id |-> "text_chunk_0", content |-> <<"x">>,
              metadata |-> [chunk_index |-> 0, total_chunks |-> 1]]

ChunkLists == SeqsUpTo(SourcedChunks \cup {TextChunk}, MaxChunks)

\* the min_length argument
MinLengths == {0, 2, 3}

\* the max_length argument of filter_chunks_by_length
MaxLengthArgs == {None, Some(0), Some(1), Some(2)}

SameSource_Always(chunk_meta, current_meta) == TRUE

\* line 203: chunk["metadata"]["source_file"] == current_chunk["metadata"]["source_file"]
SameSource(chunk_meta, current_meta) == chunk_meta.source_file = current_meta.source_file

\* chunk.copy(): a new dictionary whose "metadata" is the same object as the
\* input chunk's; `ref` is the position of that input chunk
ShallowCopy(chunk, ref) == [chunk_id |-> chunk.chunk_id, content |-> chunk.content, ref |-> ref]

\* the loop of lines 198-211 from chunks[i] on; `metas`: the metadata
\* dictionaries of the input chunks as they are now
RECURSIVE MergeLoop(_, _, _, _, _, _)
MergeLoop(chunks, i, merged_chunks, current_chunk, metas, min_length) ==
    IF i > Len(chunks)
    THEN [raised |-> FALSE, merged |-> Append(merged_chunks, current_chunk), metas |-> metas]
    ELSE IF Len(current_chunk.content) < min_length
    THEN IF \/ "source_file" \notin DOMAIN metas[i]
            \/ "source_file" \notin DOMAIN metas[current_chunk.ref]
         THEN [raised |-> TRUE, merged |-> << >>, metas |-> metas]
         ELSE IF SameSource(metas[i], metas[current_chunk.ref])
         THEN MergeLoop(chunks, i + 1, merged_chunks,
                        [current_chunk EXCEPT
                            !.content = @ \o <<NL, NL>> \o chunks[i].content],
                        [metas EXCEPT ![current_chunk.ref] =
                            [@ EXCEPT !.total_chunks = metas[i].total_chunks]],
                        min_length)
         ELSE MergeLoop(chunks, i + 1, Append(merged_chunks, current_chunk),
                        ShallowCopy(chunks[i], i), metas, min_length)
    ELSE MergeLoop(chunks, i + 1, Append(merged_chunks, current_chunk),
                   ShallowCopy(chunks[i], i), metas, min_length)

\* merge_small_chunks(chunks, min_length): whether it raised, the list it
\* returned, and the caller's input list as the call left it
MergeSmallChunks(chunks, min_length) ==
    IF chunks = << >>
    THEN [raised |-> FALSE, value |-> << >>, input_after |-> chunks]
    ELSE LET done == MergeLoop(chunks, 2, << >>, ShallowCopy(chunks[1], 1),
                               [i \in 1..Len(chunks) |-> chunks[i].metadata],
                               min_length)
         IN  [raised |-> done.raised,
              value |-> [k \in 1..Len(done.merged) |->
                            [chunk_id |-> done.merged[k].chunk_id,
                             content  |-> done.merged[k].content,
                             metadata |-> done.metas[done.merged[k].ref]]],
              input_after |-> [i \in 1..Len(chunks) |->
                                 [chunks[i] EXCEPT !.metadata = done.metas[i]]]]

merge_small_chunks(t) ==
    /\ Fresh(t)
    /\ \E chunks \in ChunkLists, min_length \in MinLengths :
          res' = [res EXCEPT ![t] =
                    [op |-> "merge_small_chunks", chunks |-> chunks,
                     min_length |-> min_length,
                     out |-> MergeSmallChunks(chunks, min_length)]]
    /\ UNCHANGED <<faiss_index, documents, metadata, disk, retriever, pc, frame>>

\* filter_chunks_by_length(chunks, min_length, max_length): the chunks that
\* pass are appended as they are, and nothing is written to any of them
FilterChunksByLength(chunks, min_length, max_length) ==
    LET Kept(chunk) ==
            /\ ~(Len(chunk.content) < min_length)
            /\ ~(Truthy(max_length) /\ Len(chunk.content) > max_length[1])
    IN  [raised |-> FALSE, value |-> SelectSeq(chunks, Kept), input_after |-> chunks]

filter_chunks_by_length(t) ==
    /\ Fresh(t)
    /\ \E chunks \in ChunkLists, min_length \in MinLengths,
          max_length \in MaxLengthArgs :
          res' = [res EXCEPT ![t] =
                    [op |-> "filter_chunks_by_length", chunks |-> chunks,
                     min_length |-> min_length, max_length |-> max_length,
                     out |-> FilterChunksByLength(chunks, min_length, max_length)]]
    /\ UNCHANGED <<faiss_index, documents, metadata, disk, retriever, pc, frame>>

-----------------------------------------------------------------------------
(* VectorStore.get_statistics, exists, get_document_count *)

\* get_model_info() of the embedding manager, as far as the store shows it
ModelInfo == [embedding_dimension |-> EmbeddingDimension]

GetDocumentCount_Tracked(index, docs) == Len(docs)

\* get_document_count(): index.ntotal, which every FAISS index has; the
\* len(self.documents) branches are not taken
GetDocumentCount(index, docs) ==
    IF index = None THEN 0 ELSE Len(index[1])

\* get_statistics(): total_documents is index.ntotal as well
GetStatistics(index, docs) ==
    IF index = None
    THEN [total_documents |-> 0,
          embedding_dimension |-> EmbeddingDimension,
          model_info |-> ModelInfo]
    ELSE [total_documents |-> Len(index[1]),
          embedding_dimension |-> EmbeddingDimension,
          model_info |-> ModelInfo,
          store_path |-> StorePath]

\* exists(): os.path.exists(self.store_path), whatever the path holds
Exists(held) == held[StorePath].kind # "absent"

get_document_count(t) ==
    /\ Idle(t)
    /\ res' = [res EXCEPT ![t] =
          [op |-> "get_document_count",
           ret |-> GetDocumentCount(faiss_index, documents)]]
    /\ UNCHANGED <<faiss_index, documents, metadata, disk, retriever, pc, frame>>

get_statistics(t) ==
    /\ Idle(t)
    /\ res' = [res EXCEPT ![t] =
          [op |-> "get_statistics", ret |-> GetStatistics(faiss_index, documents)]]
    /\ UNCHANGED <<faiss_index, documents, metadata, disk, retriever, pc, frame>>

exists(t) ==
    /\ Idle(t)
    /\ res' = [res EXCEPT ![t] = [op |-> "exists", ret |-> Exists(disk)]]
    /\ UNCHANGED <<faiss_index, documents, metadata, disk, retriever, pc, frame>>

-----------------------------------------------------------------------------
(* Specifications *)

\* the single-threaded system of the scripts: one caller, one call at a time
Next ==
    \/ add_documents(Main)
    \/ search(Main)
    \/ save(Main)
    \/ load(Main)
    \/ clear(Main)
    \/ new_retriever(Main)
    \/ retrieve(Main)
    \/ get_relevant_context(Main)
    \/ is_initialized(Main)
    \/ get_document_count(Main)
    \/ get_statistics(Main)
    \/ exists(Main)

Spec == Init /\ [][Next]_vars

\* two callers running add_documents against the same store, no lock
NextConcurrent == \E t \in Threads : add_documents(t)

SpecConcurrent == Init /\ [][NextConcurrent]_vars

\* a store after add_documents calls that succeeded, and a retriever built
\* before or after them
InitRetrieval ==
    \E chunks \in SeqsUpTo(RetrievalChunks, MaxDocs), handle \in {None, Some("vector_store")} :
       LET docs == [i \in 1..Len(chunks) |-> Document(chunks[i])]
       IN  /\ faiss_index = IF chunks = << >> THEN None ELSE Some(FromDocuments(docs))
           /\ documents = docs
           /\ metadata = [i \in 1..Len(chunks) |-> chunks[i].metadata]
           /\ disk = [p \in Paths |-> Absent]
           /\ retriever = handle
           /\ pc = [t \in Threads |-> "idle"]
           /\ frame = [t \in Threads |-> NoFrame]
           /\ res = [t \in Threads |-> NoCall]

\* one call on the retriever of such a store, or on the engine that uses it
NextRetrieval ==
    \/ retrieve_with_filters(Main)
    \/ get_retrieval_statistics(Main)
    \/ analyze_symptoms(Main)

SpecRetrieval == InitRetrieval /\ [][NextRetrieval]_vars

\* one call on a TextChunker built from the settings and its arguments
NextChunker ==
    \/ new_text_chunker(Main)
    \/ chunk_text(Main)
    \/ chunk_documents(Main)

SpecChunker == Init /\ [][NextChunker]_vars

\* one call on an EmbeddingManager
NextEmbeddings ==
    \/ batch_generate_embeddings(Main)
    \/ find_most_similar(Main)

SpecEmbeddings == Init /\ [][NextEmbeddings]_vars

\* one call on a DocumentLoader
NextLoader ==
    \/ load_documents_from_directory(Main)
    \/ load_document(Main)

SpecLoader == Init /\ [][NextLoader]_vars

\* one call of a TextChunker's operations on chunk lists
NextChunkLists ==
    \/ merge_small_chunks(Main)
    \/ filter_chunks_by_length(Main)

SpecChunkLists == Init /\ [][NextChunkLists]_vars

-----------------------------------------------------------------------------
(* Properties *)

IndexEntries(index) == IF index = None THEN << >> ELSE index[1]

ChunkEntries(chunks) ==
    EntriesOf([i \in 1..Len(chunks) |-> Document(chunks[i])])

Last == res[Main]

AddReturned(t, ret) ==
    /\ Idle(t)
    /\ res[t].op = "add_documents"
    /\ res[t].done
    /\ res[t].ret = ret

\* the (content, score) pairs of a search, in order
Pairs(index, query, top_k) ==
    LET found == Search(index, query, top_k, FALSE).value
    IN  [i \in 1..Len(found) |-> <<found[i].content, found[i].similarity_score>>]

SameSearch(index1, index2) ==
    \A query \in Queries, top_k \in TopKArgs :
        Pairs(index1, query, top_k) = Pairs(index2, query, top_k)

\* C1: a failed add_documents returns False and leaves the index and both
\* tracking lists exactly as they were when the call began; an empty chunk list
\* and a malformed chunk are failures.
C1_FailedAddLeavesStore ==
    /\ AddReturned(Main, FALSE) => store = Last.before
    /\ (Idle(Main) /\ Last.op = "add_documents" /\ Last.done
          /\ (\/ Last.chunks = << >>
              \/ \E i \in 1..Len(Last.chunks) : ~WellFormed(Last.chunks[i])))
       => ~Last.ret

\* a well-formed, non-empty batch failed against a store that has an index
C1_Witness ==
    /\ AddReturned(Main, FALSE)
    /\ Last.chunks # << >>
    /\ \A i \in 1..Len(Last.chunks) : WellFormed(Last.chunks[i])
    /\ faiss_index # None

\* C2: a successful add_documents(chunks) leaves the index holding the entries
\* it held when the call began followed by one entry per chunk, in input order;
\* no step other than clear and load changes or removes an indexed entry.
C2_InsertOnly ==
    [][ /\ res'[Main].op \notin {"clear", "load"}
            => IsPrefix(IndexEntries(faiss_index), IndexEntries(faiss_index'))
        /\ (/\ res'[Main].op = "add_documents"
            /\ res'[Main].done
            /\ res'[Main].ret)
            => IndexEntries(faiss_index') =
                 IndexEntries(res'[Main].before[1]) \o ChunkEntries(res'[Main].chunks)
      ]_vars

\* a batch was appended to an index that already held entries
C2_Witness ==
    /\ AddReturned(Main, TRUE)
    /\ Last.before[1] # None
    /\ IndexSize = Len(Last.before[1][1]) + Len(Last.chunks)

\* batch `chunks` sits in the index at offset `at`
BatchAt(chunks, at) ==
    /\ at + Len(chunks) <= IndexSize
    /\ SubSeq(faiss_index[1], at + 1, at + Len(chunks)) = ChunkEntries(chunks)

TrackingAgrees ==
    /\ Len(documents) = IndexSize
    /\ Len(metadata) = IndexSize
    /\ \A i \in 1..IndexSize :
          /\ Entry(documents[i]) = faiss_index[1][i]
          /\ metadata[i] = faiss_index[1][i].metadata

\* C3: once two add_documents calls on the same store have both returned True,
\* the index holds both batches, each contiguous and in input order, in
\* disjoint places, and the tracking lists agree with the index.
C3_ConcurrentAddsKeepBoth ==
    (AddReturned("t1", TRUE) /\ AddReturned("t2", TRUE))
    => /\ faiss_index # None
       /\ \E a1, a2 \in 0..IndexSize :
             /\ BatchAt(res["t1"].chunks, a1)
             /\ BatchAt(res["t2"].chunks, a2)
             /\ \/ a1 + Len(res["t1"].chunks) <= a2
                \/ a2 + Len(res["t2"].chunks) <= a1
       /\ TrackingAgrees

\* C4: with no index, search and retrieve return [] and get_relevant_context
\* returns "No relevant context found."; none of them raises.
C4_GracefulEmpty ==
    (Idle(Main) /\ faiss_index = None)
    => /\ Last.op \in {"search", "retrieve"} => Last.out = Return(<< >>)
       /\ Last.op = "get_relevant_context" => Last.out = Return(NoContext)

\* get_relevant_context ran on a retriever whose handle is set after the store
\* was cleared
C4_Witness ==
    /\ Idle(Main)
    /\ faiss_index = None
    /\ retriever # None
    /\ Last.op = "get_relevant_context"

\* C5: whenever the store has an index, the retriever wrapping it is
\* initialized and retrieve returns the reshaped results of search.
C5_ReadyIsSearchable ==
    (Idle(Main) /\ faiss_index # None)
    => /\ IsInitialized(retriever, faiss_index)
       /\ \A query \in Queries, top_k \in TopKArgs :
             Retrieve(retriever, faiss_index, query, top_k, FALSE) =
                Return(Reshape(Search(faiss_index, query, top_k, FALSE).value))

C7_FailedLoadLeavesIndex ==
    [][ (/\ res'[Main].op = "load"
         /\ disk[PathOr(res'[Main].path)].kind \in {"absent", "corrupt"})
        => /\ ~res'[Main].ret
           /\ faiss_index' = faiss_index
      ]_vars

\* load failed on a corrupt path while the store held an index
C7_Witness ==
    /\ Last.op = "load"
    /\ ~Last.ret
    /\ disk[PathOr(Last.path)].kind = "corrupt"
    /\ faiss_index # None

\* C8: search and retrieve never raise; when the library call fails they
\* return [], and the index is left unchanged.
C8_SearchNeverRaises ==
    [][ res'[Main].op \in {"search", "retrieve"}
        => /\ ~res'[Main].out.raised
           /\ res'[Main].fails => res'[Main].out = Return(<< >>)
           /\ faiss_index' = faiss_index
      ]_vars

\* the library call failed under retrieve with the handle set and an index present
C8_Witness ==
    /\ Last.op = "retrieve"
    /\ Last.fails
    /\ retriever # None
    /\ faiss_index # None

\* an exception occurred inside the store's search during the last retrieval
SearchRaised ==
    /\ retriever # None
    /\ SearchBody(faiss_index, Last.query, Last.top_k, Last.fails).raised

\* C9: get_relevant_context returns the error literal whenever an exception
\* occurred during the retrieval, and "No relevant context found." only when
\* the retrieval completed with zero results.
C9_ContextDistinguishesFailure ==
    (Idle(Main) /\ Last.op = "get_relevant_context")
    => /\ SearchRaised => Last.out = Return(ErrorContext)
       /\ Last.out = Return(NoContext) => ~SearchRaised

\* C10: an explicit top_k >= 0 bounds the number of results of search and of
\* retrieve.
C10_AtMostTopK ==
    (/\ Idle(Main)
     /\ Last.op \in {"search", "retrieve"}
     /\ Last.top_k # None
     /\ Last.top_k[1] >= 0)
    => Len(Last.out.value) <= Last.top_k[1]

\* C11: on a non-empty store the similarity_score values of the list search
\* returns are in non-increasing order.
C11_ScoresNonIncreasing ==
    (Idle(Main) /\ Last.op = "search" /\ faiss_index # None)
    => \A i \in 1..(Len(Last.out.value) - 1) :
          Last.out.value[i].similarity_score >= Last.out.value[i + 1].similarity_score

\* C12: is_initialized() is true exactly when the handle is set and the
\* store's index is not None, and it is false in the state clear() leaves,
\* whether or not the handle is set.
C12_InitializedIffHandleAndIndex ==
    /\ Last.op = "is_initialized"
       => (Last.ret <=> (retriever # None /\ faiss_index # None))
    /\ Last.op = "clear" => ~IsInitialized(retriever, faiss_index)

\* is_initialized() answered false after clear() dropped the index of a
\* retriever whose handle is set
C12_Witness ==
    /\ Last.op = "is_initialized"
    /\ ~Last.ret
    /\ retriever # None
    /\ faiss_index = None

\* what search returns for the arguments of the last call
LastSearch == Search(faiss_index, Last.query, Last.top_k, Last.fails).value

\* the block get_relevant_context writes for the i-th search result
BlockOf(i, found) ==
    "Document " \o ToString(i) \o " (Source: " \o SourceOf(found.metadata)
        \o ", Relevance: " \o Fixed3(found.similarity_score) \o "):\n"
        \o found.content \o "\n"

LastRetrieve ==
    Retrieve(retriever, faiss_index, Last.query,
             IF "top_k" \in DOMAIN Last THEN Last.top_k ELSE None, Last.fails).value

\* the two letters are equal up to case
SameLetter(c, d) == LowerChar(c) = LowerChar(d)

\* some window of `source` spells `text` up to case
ContainsIgnoringCase(text, source) ==
    \E i \in 0..(Len(source) - Len(text)) :
        \A k \in 1..Len(text) : SameLetter(text[k], source[i + k])

\* the result meets the score bound and, when a filter is given, the source test
Qualifies(result) ==
    /\ result.score >= Last.min_score
    /\ Last.source_filter # None
       => ContainsIgnoringCase(Chars(Last.source_filter[1]), Chars(result.source))

QualifyingPositions == { i \in 1..Len(LastRetrieve) : Qualifies(LastRetrieve[i]) }

\* C14: retrieve_with_filters returns the results of retrieve(q, top_k) that
\* have score >= min_score and whose source contains source_filter up to case
\* (any source when no filter is given): all of them, nothing else, in the
\* order retrieve returned them.
C14_FiltersSelectSubsequence ==
    (Idle(Main) /\ Last.op = "retrieve_with_filters")
    => /\ Len(Last.out.value) = Cardinality(QualifyingPositions)
       /\ \A k \in 1..Len(Last.out.value) :
             \E i \in QualifyingPositions :
                /\ Cardinality({ j \in QualifyingPositions : j < i }) = k - 1
                /\ Last.out.value[k] = LastRetrieve[i]

\* a filter in upper case kept a result and another result was dropped
C14_Witness ==
    /\ Idle(Main)
    /\ Last.op = "retrieve_with_filters"
    /\ Last.source_filter = Some("F1")
    /\ Len(LastRetrieve) >= 2
    /\ Len(Last.out.value) = 1

\* C15: get_retrieval_statistics returns total_results, average_score,
\* score_range, sources and unique_sources in every case: 0, 0.0, (0.0, 0.0),
\* [] and 0 when nothing is retrieved, and otherwise the count of the results,
\* (min, max) of their scores with min <= average <= max, and the number of
\* distinct sources, which is at most the count.
C15_StatisticsComplete ==
    (Idle(Main) /\ Last.op = "get_retrieval_statistics")
    => LET stats == Last.out.value
           scores == { LastRetrieve[i].score : i \in 1..Len(LastRetrieve) }
       IN  /\ ~Last.out.raised
           /\ {"total_results", "average_score", "score_range", "sources",
                "unique_sources"} \subseteq DOMAIN stats
           /\ IF LastRetrieve = << >>
              THEN /\ stats.total_results = 0
                   /\ stats.average_score.num = 0
                   /\ stats.score_range = <<0, 0>>
                   /\ stats.sources = << >>
                   /\ stats.unique_sources = 0
              ELSE /\ stats.total_results = Len(LastRetrieve)
                   /\ stats.score_range[1] \in scores
                   /\ stats.score_range[2] \in scores
                   /\ \A x \in scores :
                         stats.score_range[1] <= x /\ x <= stats.score_range[2]
                   /\ stats.score_range[1] * stats.average_score.den
                         <= stats.average_score.num
                   /\ stats.average_score.num
                         <= stats.score_range[2] * stats.average_score.den
                   /\ stats.unique_sources = Cardinality(SourcesOf(LastRetrieve))
                   /\ stats.unique_sources <= stats.total_results

\* the last call was made on a chunker that was constructed
Chunked ==
    /\ Last.op \in {"chunk_text", "chunk_documents"}
    /\ ~Last.chunker.raised

FromFirstDocument(chunk) == chunk.metadata.file_path = "d/f1.txt"

\* the chunks emitted for the text the last call drew
ChunksOfText ==
    IF Last.op = "chunk_text" THEN Last.out ELSE SelectSeq(Last.out, FromFirstDocument)

ValidConfig == Last.chunker.value.chunk_overlap < Last.chunker.value.chunk_size

HasText == \E i \in 1..Len(Last.text) : Last.text[i] \notin Whitespace

\* C16, as stated: with chunk_overlap < chunk_size every chunk has at most
\* chunk_size characters, and every document of at least chunk_size characters
\* yields at least one chunk.
C16_EveryLongDocumentYieldsChunk ==
    (Chunked /\ ValidConfig)
    => /\ \A i \in 1..Len(Last.out) :
             Len(Last.out[i].content) <= Last.chunker.value.chunk_size
       /\ Len(Last.text) >= Last.chunker.value.chunk_size => ChunksOfText # << >>

\* C16, amended: with chunk_overlap < chunk_size every chunk has at most
\* chunk_size characters, and every document of at least chunk_size characters
\* that is not whitespace only yields at least one chunk.
C16_ChunksWithinSize ==
    (Chunked /\ ValidConfig)
    => /\ \A i \in 1..Len(Last.out) :
             Len(Last.out[i].content) <= Last.chunker.value.chunk_size
       /\ (Len(Last.text) >= Last.chunker.value.chunk_size /\ HasText)
             => ChunksOfText # << >>

\* a text longer than chunk_size was cut into several chunks, one of them full
C16_Witness ==
    /\ Chunked
    /\ ValidConfig
    /\ Len(Last.text) > Last.chunker.value.chunk_size
    /\ Len(ChunksOfText) >= 2
    /\ \E i \in 1..Len(ChunksOfText) :
          Len(ChunksOfText[i].content) = Last.chunker.value.chunk_size

\* C17: the chunks emitted for one source carry chunk_index 0..n-1 in order
\* and total_chunks = n, n being the number of chunks emitted for it.
C17_ChunkIndexContiguous ==
    Chunked
    => \A k \in 1..Len(ChunksOfText) :
          /\ ChunksOfText[k].metadata.chunk_index = k - 1
          /\ ChunksOfText[k].metadata.total_chunks = Len(ChunksOfText)

\* C18: for batch_size >= 1 batch_generate_embeddings returns one vector per
\* text, in input order: the zero vector of the embedding dimension at the
\* positions of a batch whose embedding call failed, and the model's vector
\* of text i at every other position i.
C18_BatchKeepsPositions ==
    (Last.op = "batch_generate_embeddings" /\ Last.batch_size >= 1)
    => /\ ~Last.out.raised
       /\ Len(Last.out.value) = Len(Last.texts)
       /\ \A i \in 1..Len(Last.texts) :
             Last.out.value[i] =
                IF ((i - 1) \div Last.batch_size) + 1 \in Last.failing
                THEN [k \in 1..EmbeddingDimension |-> 0]
                ELSE Embed(Last.texts[i])

\* three texts in batches of two, the first batch failed and the second did not
C18_Witness ==
    /\ Last.op = "batch_generate_embeddings"
    /\ Last.batch_size = 2
    /\ Len(Last.texts) = 3
    /\ Last.failing = {1}
    /\ Last.out.value[3] = Embed(Last.texts[3])

\* the score find_most_similar computes for the candidate of 0-based index i
ScoreOf(i) == Similarity(Last.query, Last.candidates[i + 1])

\* C19: for top_k >= 0 find_most_similar returns min(top_k, len(candidates))
\* pairs (index, score) with distinct valid indices, each with its candidate's
\* score, in non-increasing score order, equal scores by increasing index,
\* and no candidate left out scores strictly higher than a returned one.
C19_MostSimilarRanking ==
    (Last.op = "find_most_similar" /\ Last.top_k >= 0)
    => LET out == Last.out
           n == Len(Last.candidates)
           returned == { out[r][1] : r \in 1..Len(out) }
       IN  /\ Len(out) = Min(Last.top_k, n)
           /\ \A r \in 1..Len(out) :
                 /\ out[r][1] \in 0..(n - 1)
                 /\ out[r][2] = ScoreOf(out[r][1])
           /\ \A r, q \in 1..Len(out) : r # q => out[r][1] # out[q][1]
           /\ \A r \in 1..(Len(out) - 1) :
                 /\ ~Less(out[r][2], out[r + 1][2])
                 /\ ~Less(out[r + 1][2], out[r][2]) => out[r][1] < out[r + 1][1]
           /\ \A i \in (0..(n - 1)) \ returned :
                 \A r \in 1..Len(out) : ~Less(out[r][2], ScoreOf(i))

\* two of three candidates were returned, the two tied and a third left out
C19_Witness ==
    /\ Last.op = "find_most_similar"
    /\ Last.top_k = 2
    /\ Len(Last.candidates) = 3
    /\ Len(Last.out) = 2
    /\ Last.out[1][2] = Last.out[2][2]
    /\ Last.out[1][1] = 1

\* the entry is a file the loader has to return a document for
Loadable(file) ==
    /\ file.kind = "file"
    /\ SuffixLower(file.suffix) \in {".pdf", ".docx", ".txt"}
    /\ file.size_mb <= MaxFileSizeMb
    /\ file.readable

LoadablePositions == { i \in 1..Len(Last.listing) : Loadable(Last.listing[i]) }

\* C20: load_documents_from_directory does not raise, whatever the directory
\* holds, and returns exactly one document for every supported, readable file
\* of at most max_file_size_mb and none for any other entry.
C20_LoaderIsolatesFiles ==
    Last.op = "load_documents_from_directory"
    => /\ ~Last.out.raised
       /\ Len(Last.out.value) = Cardinality(LoadablePositions)
       /\ \A i \in LoadablePositions :
             \E k \in 1..Len(Last.out.value) :
                Last.out.value[k].file_path = PathOf(i, Last.listing[i])
       /\ \A k \in 1..Len(Last.out.value) :
             \E i \in LoadablePositions :
                Last.out.value[k].file_path = PathOf(i, Last.listing[i])

\* an unreadable file came first and the file after it, of exactly the
\* largest accepted size, was still loaded
C20_Witness ==
    /\ Last.op = "load_documents_from_directory"
    /\ Len(Last.listing) = 2
    /\ Last.listing[1].kind = "file"
    /\ IsSupportedFormat(Last.listing[1])
    /\ ~Last.listing[1].readable
    /\ Loadable(Last.listing[2])
    /\ Len(Last.out.value) = 1

\* C21: every document load_documents_from_directory returns has content that
\* is not empty and has no leading or trailing whitespace, so a supported file
\* whose text is empty or whitespace only produces no document.
C21_ContentNonEmptyStripped ==
    Last.op = "load_documents_from_directory"
    => \A k \in 1..Len(Last.out.value) :
          /\ Last.out.value[k].content # << >>
          /\ Strip(Last.out.value[k].content) = Last.out.value[k].content

\* the value the caller configured: the argument, or the setting when the
\* argument is omitted
Configured(arg, setting) == IF arg = None THEN setting ELSE arg[1]

\* C22: TextChunker(chunk_size, chunk_overlap) fails at construction when the
\* configured chunk_overlap >= chunk_size, an explicit 0 counting as 0, and
\* otherwise is accepted with exactly the configured chunk_size and
\* chunk_overlap.
C22_InvalidConfigFailsFast ==
    Last.op = "TextChunker"
    => LET size == Configured(Last.chunk_size, Last.settings.chunk_size)
           overlap == Configured(Last.chunk_overlap, Last.settings.chunk_overlap)
       IN  IF overlap >= size
           THEN Last.out.raised
           ELSE Last.out = Return([chunk_size |-> size, chunk_overlap |-> overlap])

\* retrieval is unavailable, fails or yields no results for the last call
NothingRetrieved ==
    \/ ~IsInitialized(retriever, faiss_index)
    \/ LastRetrieve = << >>

\* C23: analyze_symptoms with use_rag and nothing retrieved hands the
\* generation client exactly one prompt, the no-context prompt, reports
\* context_length 0, and its result has no error unless generation had one.
C23_DegradesToNoContext ==
    (Last.op = "analyze_symptoms" /\ Last.use_rag /\ NothingRetrieved)
    => /\ Len(Last.out.prompts) = 1
       /\ Last.out.prompts[1] = [kind |-> "simple", symptoms |-> Last.query]
       /\ "metadata" \in DOMAIN Last.out.result
       /\ Last.out.result.metadata.context_length = 0
       /\ "error" \in DOMAIN Last.out.result => "error" \in DOMAIN Last.generation

\* the positions after s at which a run of `starts` begins, or past the end
NextStart(starts, s, n) ==
    IF \E u \in starts : u > s
    THEN CHOOSE u \in starts : u > s /\ \A v \in starts : v > s => u <= v
    ELSE n + 1

\* the "\n\n"-join of the contents of chunks[from..to]
RECURSIVE JoinContents(_, _, _)
JoinContents(chunks, from, to) ==
    IF from = to THEN chunks[from].content
    ELSE chunks[from].content \o <<NL, NL>> \o JoinContents(chunks, from + 1, to)

C25_FilterExactRange ==
    Last.op = "filter_chunks_by_length"
    => LET InRange(chunk) ==
               /\ Len(chunk.content) >= Last.min_length
               /\ Last.max_length # None => Len(chunk.content) <= Last.max_length[1]
       IN  Last.out.value = SelectSeq(Last.chunks, InRange)

\* C30: merge_small_chunks and filter_chunks_by_length leave every chunk of
\* the caller's input list with the content and metadata it had.
C30_InputUnchanged ==
    Last.op \in {"merge_small_chunks", "filter_chunks_by_length"}
    => Last.out.input_after = Last.chunks

\* C29: within one chunk_documents call no two emitted chunks have the same
\* chunk_id, and chunks that agree on chunk_id, source_file and chunk_index
\* come from the same source document.
C29_ChunkIdsUnique ==
    (Last.op = "chunk_documents" /\ ~Last.chunker.raised)
    => \A i, j \in 1..Len(Last.out) :
          /\ i # j => Last.out[i].chunk_id # Last.out[j].chunk_id
          /\ ( /\ Last.out[i].chunk_id = Last.out[j].chunk_id
               /\ Last.out[i].metadata.source_file = Last.out[j].metadata.source_file
               /\ Last.out[i].metadata.chunk_index = Last.out[j].metadata.chunk_index )
             => Last.out[i].metadata.file_path = Last.out[j].metadata.file_path

\* C26: whenever no call is in progress, len(documents), len(metadata), the
\* number of indexed entries, get_document_count() and
\* get_statistics().total_documents are one number, and it is 0 exactly when
\* there is no index.
C26_BookkeepingAgrees ==
    Idle(Main)
    => /\ Len(documents) = Len(metadata)
       /\ Len(metadata) = IndexSize
       /\ IndexSize = GetDocumentCount(faiss_index, documents)
       /\ IndexSize = GetStatistics(faiss_index, documents).total_documents
       /\ IndexSize = 0 <=> faiss_index = None
       /\ Last.op = "get_document_count" => Last.ret = IndexSize
       /\ Last.op = "get_statistics" => Last.ret.total_documents = IndexSize

\* the entries the content/score pairs of a search can come from
ContentsOf(entries) == { entries[i].page_content : i \in 1..Len(entries) }

\* C27: a load that returns True leaves the index equal to the snapshot the
\* path held, whatever the index was before: get_document_count() is the
\* number of saved entries and every search result is one of them.
C27_LoadReplacesWithSnapshot ==
    [][ (res'[Main].op = "load" /\ res'[Main].ret /\ load(Main))
        => LET held == disk[PathOr(res'[Main].path)]
           IN  /\ held.kind = "saved"
               /\ faiss_index' = Some(held.entries)
               /\ GetDocumentCount(faiss_index', documents') = Len(held.entries)
               /\ GetStatistics(faiss_index', documents').total_documents
                     = Len(held.entries)
               /\ \A query \in Queries, top_k \in TopKArgs :
                     LET found == Search(faiss_index', query, top_k, FALSE).value
                     IN  /\ found = Search(Some(held.entries), query, top_k, FALSE).value
                         /\ \A i \in 1..Len(found) :
                               found[i].content \in ContentsOf(held.entries)
      ]_vars

\* a load succeeded on a store whose index and tracking lists held something
\* else than the snapshot
C27_Witness ==
    /\ Idle(Main)
    /\ Last.op = "load"
    /\ Last.ret
    /\ faiss_index # None
    /\ Len(documents) > IndexSize

\* C28: clear() empties the index and both tracking lists and writes nothing
\* else: get_document_count() is 0, every search returns [], what the paths
\* hold and exists() are as before, and a load of a saved path would restore
\* exactly what it holds; an add_documents that succeeds on a store without
\* index leaves an index of the new batch only.
C28_ClearDropsOnlyMemory ==
    [][ /\ clear(Main)
           => /\ GetDocumentCount(faiss_index', documents') = 0
              /\ \A query \in Queries, top_k \in TopKArgs, fails \in BOOLEAN :
                    Search(faiss_index', query, top_k, fails) = Return(<< >>)
              /\ documents' = << >>
              /\ metadata' = << >>
              /\ disk' = disk
              /\ Exists(disk') = Exists(disk)
              /\ retriever' = retriever
              /\ \A path \in LoadPathArgs :
                    disk[PathOr(path)].kind = "saved"
                    => LoadOutcome(faiss_index', disk'[PathOr(path)])
                          = [ret |-> TRUE, index |-> Some(disk[PathOr(path)].entries)]
        /\ (AddTrackMetadata(Main) /\ res'[Main].before = <<None, << >>, << >>>>)
           => /\ faiss_index' = Some(FromDocuments(frame[Main].documents))
              /\ documents' = frame[Main].documents
              /\ metadata' = frame[Main].metadatas
      ]_vars

\* clear has just emptied a store whose path holds a saved index
C28_Witness ==
    /\ Idle(Main)
    /\ Last.op = "clear"
    /\ faiss_index = None
    /\ documents = << >>
    /\ disk[StorePath].kind = "saved"

====
